---- MODULE Spec2Model ----
(***************************************************************************)
(* Model of client/src/nfc_reader.py: the NFCReader detection loop         *)
(* (start / stop / _reader_loop / connect / disconnect / is_connected) and *)
(* the identity resolver (_extract_uid).                                   *)
(*                                                                         *)
(* Bytes are integers 0..255, byte strings are sequences of bytes, and a   *)
(* Python str is a sequence of one-character strings.  The reader is       *)
(* constructed with both callbacks registered.                             *)
(***************************************************************************)
EXTENDS Integers, Sequences, FiniteSets

VARIABLES
    running,        \* self.running
    clf,            \* self.clf: 0 is None, otherwise the id of a connection object
    reader_thread,  \* self.reader_thread: 0 is None, otherwise a thread id
    current_uid,    \* self.current_uid: None or a str
    open,           \* the connection objects that are open on the device
    nthreads,       \* how many background threads start() has created
    tpc,            \* position of each background thread in _reader_loop
    tconn,          \* the connection object a thread's sense() call runs on
    cpc,            \* position of the controlling caller inside stop()
    early,          \* runs whose stop() was called before a sense completed
    noop_stop,      \* the latest stop() was called on a reader already stopped
    log,            \* history: one record per loop iteration, in completion order
    res_target,     \* resolver harness: the target handle passed to _extract_uid
    res_pc,         \* resolver harness: "call" before the call, "returned" after
    res_uid,        \* resolver harness: the returned identity
    res_io          \* resolver harness: the device calls the resolver made

vars == <<running, clf, reader_thread, current_uid, open, nthreads, tpc, tconn,
          cpc, early, noop_stop, log, res_target, res_pc, res_uid, res_io>>

loopVars == <<running, clf, reader_thread, current_uid, open, nthreads, tpc,
              tconn, cpc, early, noop_stop, log>>

resVars == <<res_target, res_pc, res_uid, res_io>>

-----------------------------------------------------------------------------
(* Bounds of the model *)

MaxThreads == 2     \* background threads created over the whole behaviour
MaxIter == 3        \* loop iterations recorded once a second thread exists
MaxRunIter == 5     \* loop iterations recorded while only one thread exists
MaxHw == 2          \* longest enumerated sdd_res, in bytes
MaxResp == 3        \* longest enumerated select-AID response, in bytes

-----------------------------------------------------------------------------
(* Byte strings and str *)

ByteVals == {0, 144, 171}

RECURSIVE SeqsUpTo(_, _)
SeqsUpTo(S, n) ==
    IF n = 0 THEN {<<>>}
    ELSE LET shorter == SeqsUpTo(S, n - 1)
         IN  shorter \cup {Append(s, x) : s \in {q \in shorter : Len(q) = n - 1}, x \in S}

HexDigits == <<"0", "1", "2", "3", "4", "5", "6", "7", "8", "9",
               "a", "b", "c", "d", "e", "f">>

\* bytes.hex(): two lowercase hexadecimal digits per byte
RECURSIVE hex(_)
hex(b) ==
    IF b = <<>> THEN <<>>
    ELSE <<HexDigits[(b[1] \div 16) + 1], HexDigits[(b[1] % 16) + 1]>> \o hex(Tail(b))

upper_char(c) ==
    CASE c = "a" -> "A"
      [] c = "b" -> "B"
      [] c = "c" -> "C"
      [] c = "d" -> "D"
      [] c = "e" -> "E"
      [] c = "f" -> "F"
      [] OTHER -> c

\* str.upper()
upper(s) == [i \in 1..Len(s) |-> upper_char(s[i])]

\* bytes.endswith(suffix)
endswith(b, suffix) ==
    /\ Len(b) >= Len(suffix)
    /\ SubSeq(b, Len(b) - Len(suffix) + 1, Len(b)) = suffix

\* bytes.fromhex("9000")
StatusOk == <<144, 0>>

\* The value of one hexadecimal digit
hex_value(c) ==
    CASE c = "0" -> 0 [] c = "1" -> 1 [] c = "2" -> 2 [] c = "3" -> 3
      [] c = "4" -> 4 [] c = "5" -> 5 [] c = "6" -> 6 [] c = "7" -> 7
      [] c = "8" -> 8 [] c = "9" -> 9 [] c = "A" -> 10 [] c = "B" -> 11
      [] c = "C" -> 12 [] c = "D" -> 13 [] c = "E" -> 14 [] c = "F" -> 15

\* bytes.fromhex(s): one byte per pair of digits
fromhex(s) ==
    [i \in 1..(Len(s) \div 2) |-> 16 * hex_value(s[2 * i - 1]) + hex_value(s[2 * i])]

\* line 140: bytes.fromhex("00A4040007F000000001000100")
select_aid_apdu ==
    fromhex(<<"0", "0", "A", "4", "0", "4", "0", "0", "0", "7", "F", "0", "0", "0",
              "0", "0", "0", "0", "0", "1", "0", "0", "0", "1", "0", "0">>)

\* Python's None for an Optional[str]; no str is equal to it
None == <<"None">>

-----------------------------------------------------------------------------
(* The identity resolver *)

\* A sensed target handle together with what the device answers for it:
\*   sdd_res    the anti-collision identifier of the handle
\*   activate   nfc.tag.activate: "raise", "None" (no tag), or the tag's type
\*   transceive tag.transceive: "raise" or "ok"
\*   response   the bytes transceive returns when it does not raise
Handle(sdd, act, trx, resp) ==
    [sdd_res |-> sdd, activate |-> act, transceive |-> trx, response |-> resp]

ActivateOutcomes == {"raise", "None", "Type2Tag", "Type4Tag"}
TransceiveOutcomes == {"raise", "ok"}

HwIds == (SeqsUpTo(ByteVals, MaxHw) \ {<<>>}) \cup {<<4, 161, 178, 195>>}
Responses == SeqsUpTo(ByteVals, MaxResp) \cup {<<170, 187, 204, 221, 144, 0>>}

Handles ==
    {Handle(s, a, t, r) : s \in HwIds, a \in ActivateOutcomes,
                          t \in TransceiveOutcomes, r \in Responses}

\* What a block of code does: return a value, raise, or run to its end
Return(v) == [kind |-> "return", value |-> v]
Raise == [kind |-> "raise", value |-> <<>>]
Fall == [kind |-> "fall", value |-> <<>>]

\* Mutant of custom_uid: the status word is not stripped
custom_uid_unstripped(target) == upper(hex(target.response))

\* line 148: response[:-2].hex().upper()
custom_uid(target) ==
    upper(hex(SubSeq(target.response, 1, Len(target.response) - 2)))

\* line 130: target.sdd_res.hex().upper()
hw_uid(target) == upper(hex(target.sdd_res))

\* lines 143-150: the body of the inner try
select_app_body(target) ==
    IF target.transceive = "raise" THEN Raise
    ELSE IF target.response # <<>> /\ endswith(target.response, StatusOk)
         THEN Return(custom_uid(target))
         ELSE Fall

\* lines 142-153: the inner try; "except Exception: pass"
select_app(target) ==
    LET r == select_app_body(target)
    IN  IF r.kind = "raise" THEN Fall ELSE r

\* lines 134-153: the body of the outer try
activate_body(target) ==
    IF target.activate = "raise" THEN Raise
    ELSE IF target.activate # "None" /\ target.activate = "Type4Tag"
         THEN select_app(target)
         ELSE Fall

\* Mutant of hce_check: the outer try does not catch
hce_check_uncaught(target) == activate_body(target)

\* lines 132-157: the outer try; the exception is logged and dropped
hce_check(target) ==
    LET r == activate_body(target)
    IN  IF r.kind = "raise" THEN Fall ELSE r

\* _extract_uid, lines 123-160: what the call does (returns a str, or raises)
_extract_uid(target) ==
    LET r == hce_check(target)
    IN  IF r.kind = "fall" THEN Return(hw_uid(target)) ELSE r

\* Mutant of extract_io: the select command is sent whatever the tag type
extract_io_untyped(target) ==
    <<[op |-> "activate", data |-> <<>>],
      [op |-> "transceive", data |-> select_aid_apdu]>>

\* The calls _extract_uid makes on the device, in order: nfc.tag.activate at
\* line 134, then tag.transceive(select_aid_apdu) at line 143 when line 137
\* holds
extract_io(target) ==
    <<[op |-> "activate", data |-> <<>>]>> \o
    (IF target.activate # "raise" /\ target.activate # "None"
          /\ target.activate = "Type4Tag"
     THEN <<[op |-> "transceive", data |-> select_aid_apdu]>>
     ELSE <<>>)

ResInit ==
    /\ res_target \in Handles
    /\ res_pc = "call"
    /\ res_uid = Fall
    /\ res_io = <<>>

ResolveCall ==
    /\ res_pc = "call"
    /\ res_uid' = _extract_uid(res_target)
    /\ res_io' = extract_io(res_target)
    /\ res_pc' = "returned"
    /\ UNCHANGED <<res_target, loopVars>>

-----------------------------------------------------------------------------
(* The detection loop *)

Threads == 1..MaxThreads

LoopInit ==
    /\ running = FALSE
    /\ clf = 0
    /\ reader_thread = 0
    /\ current_uid = None
    /\ open = {}
    /\ nthreads = 0
    /\ tpc = [t \in Threads |-> "new"]
    /\ tconn = [t \in Threads |-> 0]
    /\ cpc = "idle"
    /\ early = {}
    /\ noop_stop = FALSE
    /\ log = <<>>

\* The targets the device presents during polling: a plain card (activation
\* raises), a phone whose app answers with a custom UID, and a phone whose app
\* answers with the bare status word.
CardA == Handle(<<4, 161>>, "raise", "raise", <<>>)
PhoneX == Handle(<<8, 0>>, "Type4Tag", "ok", <<171, 144, 0>>)
PhoneBare == Handle(<<8, 1>>, "Type4Tag", "ok", <<144, 0>>)

Targets == {CardA, PhoneX, PhoneBare}

\* One iteration of the while loop, as it is written to the history; raised
\* tells whether card_removed_callback raised in it
Iteration(t, sensed, uid, cb) ==
    [thread |-> t, sensed |-> sensed, uid |-> uid, before |-> current_uid,
     cb |-> cb, raised |-> FALSE]

\* The latest iteration of thread t in the history
LastOf(t) ==
    CHOOSE i \in 1..Len(log) :
        /\ log[i].thread = t
        /\ \A j \in (i + 1)..Len(log) : log[j].thread # t

\* How many iterations the history may hold
IterLimit == IF nthreads <= 1 THEN MaxRunIter ELSE MaxIter

InFlight == Cardinality({t \in Threads : tpc[t] = "sense"})

\* is_connected(), lines 162-169
is_connected == running /\ clf # 0

\* start(), lines 77-83
start ==
    /\ cpc = "idle"
    /\ IF ~running
       THEN /\ nthreads < MaxThreads
            /\ running' = TRUE
            /\ nthreads' = nthreads + 1
            /\ reader_thread' = nthreads + 1
            /\ tpc' = [tpc EXCEPT ![nthreads + 1] = "connect"]
            /\ noop_stop' = FALSE
       ELSE UNCHANGED <<running, nthreads, reader_thread, tpc, noop_stop>>
    /\ UNCHANGED <<clf, current_uid, open, tconn, cpc, early, log, resVars>>

\* The reader was never started, or was stopped and its connection is closed
AlreadyStopped == ~running /\ clf = 0 /\ open = {}

\* Mutant of stop: Session State is cleared as well
stop_clears_state ==
    /\ cpc = "idle"
    /\ running' = FALSE
    /\ current_uid' = None
    /\ cpc' = "join"
    /\ UNCHANGED <<clf, reader_thread, open, nthreads, tpc, tconn, early, noop_stop, log,
                   resVars>>

\* stop(), line 87: the running flag is cleared
stop ==
    /\ cpc = "idle"
    /\ running' = FALSE
    /\ cpc' = "join"
    /\ early' = IF reader_thread # 0
                   /\ \A i \in 1..Len(log) : log[i].thread # reader_thread
                THEN early \cup {reader_thread}
                ELSE early
    /\ noop_stop' = AlreadyStopped
    /\ UNCHANGED <<clf, reader_thread, current_uid, open, nthreads, tpc, tconn,
                   log, resVars>>

\* stop(), lines 88-89: join(timeout=2) returns because the thread has ended
join_finished ==
    /\ cpc = "join"
    /\ reader_thread # 0 => tpc[reader_thread] \in {"done", "failed"}
    /\ cpc' = "disconnect"
    /\ UNCHANGED <<running, clf, reader_thread, current_uid, open, nthreads, tpc,
                   tconn, early, noop_stop, log, resVars>>

\* The positions at which a thread waits on the device or on the consumer:
\* opening the device, sense(), and the two callbacks
Blocking == {"connect", "sense", "cb_arrival", "cb_removal"}

\* stop(), lines 88-89: join(timeout=2) returns because the two seconds are over
\* while the thread is still waiting
join_timeout ==
    /\ cpc = "join"
    /\ reader_thread # 0
    /\ tpc[reader_thread] \in Blocking
    /\ cpc' = "disconnect"
    /\ UNCHANGED <<running, clf, reader_thread, current_uid, open, nthreads, tpc,
                   tconn, early, noop_stop, log, resVars>>

\* disconnect(), lines 72-73: the test of self.clf and the close() call
disconnect_close ==
    /\ cpc = "disconnect"
    /\ IF clf # 0
       THEN /\ open' = open \ {clf}
            /\ cpc' = "clear"
       ELSE /\ cpc' = "idle"
            /\ UNCHANGED open
    /\ UNCHANGED <<running, clf, reader_thread, current_uid, nthreads, tpc, tconn,
                   early, noop_stop, log, resVars>>

\* Mutant of disconnect_clear: Session State is reset with the handle
disconnect_clear_resets ==
    /\ cpc = "clear"
    /\ clf' = 0
    /\ current_uid' = None
    /\ cpc' = "idle"
    /\ UNCHANGED <<running, reader_thread, open, nthreads, tpc, tconn, early, noop_stop, log,
                   resVars>>

\* disconnect(), line 74: self.clf = None
disconnect_clear ==
    /\ cpc = "clear"
    /\ clf' = 0
    /\ cpc' = "idle"
    /\ UNCHANGED <<running, reader_thread, current_uid, open, nthreads, tpc, tconn,
                   early, noop_stop, log, resVars>>

\* connect(), lines 60-65: the device opens; thread t's connection object is t
connect_ok(t) ==
    /\ tpc[t] = "connect"
    /\ clf' = t
    /\ open' = open \cup {t}
    /\ tpc' = [tpc EXCEPT ![t] = "loop"]
    /\ UNCHANGED <<running, reader_thread, current_uid, nthreads, tconn, cpc,
                   early, noop_stop, log, resVars>>

\* connect(), lines 56-58 and 66-68, and _reader_loop line 96: the open fails
connect_fail(t) ==
    /\ tpc[t] = "connect"
    /\ tpc' = [tpc EXCEPT ![t] = "failed"]
    /\ UNCHANGED <<running, clf, reader_thread, current_uid, open, nthreads, tconn,
                   cpc, early, noop_stop, log, resVars>>

\* line 98 with the flag clear: the loop ends
loop_exit(t) ==
    /\ tpc[t] = "loop"
    /\ ~running
    /\ tpc' = [tpc EXCEPT ![t] = "done"]
    /\ UNCHANGED <<running, clf, reader_thread, current_uid, open, nthreads, tconn,
                   cpc, early, noop_stop, log, resVars>>

\* Mutant of sense_begin: the loop does not test the flag ("while True")
sense_begin_unconditional(t) ==
    /\ tpc[t] = "loop"
    /\ Len(log) + InFlight < IterLimit
    /\ IF clf = 0
       THEN /\ log' = Append(log, Iteration(t, "error", None, "none"))
            /\ UNCHANGED <<tpc, tconn>>
       ELSE /\ tpc' = [tpc EXCEPT ![t] = "sense"]
            /\ tconn' = [tconn EXCEPT ![t] = clf]
            /\ UNCHANGED log
    /\ UNCHANGED <<running, clf, reader_thread, current_uid, open, nthreads, cpc,
                   early, noop_stop, resVars>>

\* lines 98 and 102: the flag is set and self.clf.sense(...) is called; with
\* self.clf None the attribute access raises and line 120 catches it
sense_begin(t) ==
    /\ tpc[t] = "loop"
    /\ running
    /\ Len(log) + InFlight < IterLimit
    /\ IF clf = 0
       THEN /\ log' = Append(log, Iteration(t, "error", None, "none"))
            /\ UNCHANGED <<tpc, tconn>>
       ELSE /\ tpc' = [tpc EXCEPT ![t] = "sense"]
            /\ tconn' = [tconn EXCEPT ![t] = clf]
            /\ UNCHANGED log
    /\ UNCHANGED <<running, clf, reader_thread, current_uid, open, nthreads, cpc,
                   early, noop_stop, resVars>>

\* Mutant of sense_error: the exception ends the loop
sense_error_fatal(t) ==
    /\ tpc[t] = "sense"
    /\ log' = Append(log, Iteration(t, "error", None, "none"))
    /\ tpc' = [tpc EXCEPT ![t] = "done"]
    /\ UNCHANGED <<running, clf, reader_thread, current_uid, open, nthreads, tconn,
                   cpc, early, noop_stop, resVars>>

\* line 102 raises (always so on a closed connection); line 120 catches it
sense_error(t) ==
    /\ tpc[t] = "sense"
    /\ log' = Append(log, Iteration(t, "error", None, "none"))
    /\ tpc' = [tpc EXCEPT ![t] = "loop"]
    /\ UNCHANGED <<running, clf, reader_thread, current_uid, open, nthreads, tconn,
                   cpc, early, noop_stop, resVars>>

\* Mutant of is_new: the comparison with current_uid is dropped
is_new_no_dedup(uid) == uid # <<>>

\* Mutant of is_new: the test that uid is non-empty is dropped
is_new_allows_empty(uid) == uid # current_uid

\* line 106: the dedup test on the resolved identity
is_new(uid) == uid # <<>> /\ uid # current_uid

\* lines 102-111: a target is sensed and resolved; an exception out of
\* _extract_uid is caught at line 120
sense_target(t) ==
    /\ tpc[t] = "sense"
    /\ tconn[t] \in open
    /\ \E target \in Targets :
         LET r == _extract_uid(target)
         IN  IF r.kind = "raise"
             THEN /\ tpc' = [tpc EXCEPT ![t] = "loop"]
                  /\ log' = Append(log, Iteration(t, "error", None, "none"))
                  /\ UNCHANGED current_uid
             ELSE IF is_new(r.value)
             THEN /\ current_uid' = r.value
                  /\ tpc' = [tpc EXCEPT ![t] = "cb_arrival"]
                  /\ log' = Append(log, Iteration(t, "target", r.value, "arrival"))
             ELSE /\ tpc' = [tpc EXCEPT ![t] = "loop"]
                  /\ log' = Append(log, Iteration(t, "target", r.value, "none"))
                  /\ UNCHANGED current_uid
    /\ UNCHANGED <<running, clf, reader_thread, open, nthreads, tconn, cpc, early, noop_stop,
                   resVars>>

\* Mutant of was_present: the test is dropped
was_present_always == TRUE

\* line 114: the test that a card was present
was_present == current_uid # None

\* lines 102 and 112-118: no target is sensed
sense_none(t) ==
    /\ tpc[t] = "sense"
    /\ tconn[t] \in open
    /\ IF was_present
       THEN /\ tpc' = [tpc EXCEPT ![t] = "cb_removal"]
            /\ log' = Append(log, Iteration(t, "none", None, "removal"))
       ELSE /\ tpc' = [tpc EXCEPT ![t] = "loop"]
            /\ log' = Append(log, Iteration(t, "none", None, "none"))
    /\ UNCHANGED <<running, clf, reader_thread, current_uid, open, nthreads, tconn,
                   cpc, early, noop_stop, resVars>>

\* lines 110-111: card_callback(uid) returns, or raises into line 120
arrival_done(t) ==
    /\ tpc[t] = "cb_arrival"
    /\ tpc' = [tpc EXCEPT ![t] = "loop"]
    /\ UNCHANGED <<running, clf, reader_thread, current_uid, open, nthreads, tconn,
                   cpc, early, noop_stop, log, resVars>>

\* lines 118-119: card_removed_callback() returns and the state is cleared
removal_returns(t) ==
    /\ tpc[t] = "cb_removal"
    /\ current_uid' = None
    /\ tpc' = [tpc EXCEPT ![t] = "loop"]
    /\ UNCHANGED <<running, clf, reader_thread, open, nthreads, tconn, cpc, early, noop_stop,
                   log, resVars>>

\* lines 118 and 120: card_removed_callback() raises; line 119 is skipped
removal_raises(t) ==
    /\ tpc[t] = "cb_removal"
    /\ tpc' = [tpc EXCEPT ![t] = "loop"]
    /\ log' = [log EXCEPT ![LastOf(t)].raised = TRUE]
    /\ UNCHANGED <<running, clf, reader_thread, current_uid, open, nthreads, tconn,
                   cpc, early, noop_stop, resVars>>

\* _reader_loop, lines 93-121, as run by thread t
_reader_loop(t) ==
    \/ connect_ok(t)
    \/ connect_fail(t)
    \/ loop_exit(t)
    \/ sense_begin(t)
    \/ sense_error(t)
    \/ sense_target(t)
    \/ sense_none(t)
    \/ arrival_done(t)
    \/ removal_returns(t)
    \/ removal_raises(t)

-----------------------------------------------------------------------------
(* Specifications *)

\* The state after NFCReader(...) is constructed, lines 40-47
Init ==
    /\ LoopInit
    /\ res_target = CardA
    /\ res_pc = "returned"
    /\ res_uid = Return(hw_uid(CardA))
    /\ res_io = <<>>

Next ==
    \/ start
    \/ stop
    \/ join_finished
    \/ join_timeout
    \/ disconnect_close
    \/ disconnect_clear
    \/ \E t \in Threads : _reader_loop(t)

\* The reader under every interleaving of the caller and its threads
Spec == Init /\ [][Next]_vars

\* One polling run: the caller calls start() once
OneRun == nthreads' <= 1

\* start(), for the reader's first run only
start_once == start /\ OneRun

NextRun ==
    \/ start_once
    \/ stop
    \/ join_finished
    \/ join_timeout
    \/ disconnect_close
    \/ disconnect_clear
    \/ \E t \in Threads : _reader_loop(t)

SpecRun == Init /\ [][NextRun]_vars

\* A run, a stop and a later run: the caller creates at most two threads
TwoRuns == nthreads' <= 2

\* start(), for the reader's first two runs
start_again == start /\ TwoRuns

NextRestart ==
    \/ start_again
    \/ stop
    \/ join_finished
    \/ join_timeout
    \/ disconnect_close
    \/ disconnect_clear
    \/ \E t \in Threads : _reader_loop(t)

SpecRestart == Init /\ [][NextRestart]_vars

\* Every thread that can take a step eventually takes one: the device calls
\* (open, sense with its one-second timeout) and the callbacks come back, and
\* the interpreter schedules every thread
ThreadsProgress == \A t \in Threads : WF_vars(_reader_loop(t))

SpecRestartLive == SpecRestart /\ ThreadsProgress

\* The resolver applied to every enumerated handle
InitResolver == LoopInit /\ ResInit

NextResolver == ResolveCall

SpecResolver == InitResolver /\ [][NextResolver]_vars

-----------------------------------------------------------------------------
(* Properties of the resolver, checked under SpecResolver *)

UpperDigits == <<"0", "1", "2", "3", "4", "5", "6", "7", "8", "9",
                 "A", "B", "C", "D", "E", "F">>

\* The uppercase hexadecimal encoding of a byte string, digit by digit
HexUpperRef(b) ==
    [i \in 1..(2 * Len(b)) |->
        IF i % 2 = 1
        THEN UpperDigits[(b[(i + 1) \div 2] \div 16) + 1]
        ELSE UpperDigits[(b[i \div 2] % 16) + 1]]

EndsWith9000(b) == Len(b) >= 2 /\ b[Len(b) - 1] = 144 /\ b[Len(b)] = 0

Returned == res_pc = "returned"

FallbackCase(h) ==
    \/ h.activate = "raise"
    \/ h.activate = "None"
    \/ h.activate # "Type4Tag"
    \/ h.transceive = "raise"
    \/ h.response = <<>>
    \/ ~EndsWith9000(h.response)

PriorityCase(h) ==
    /\ h.activate = "Type4Tag"
    /\ h.transceive = "ok"
    /\ EndsWith9000(h.response)

\* C4: resolver fallback law.  Whenever activation raises, the tag is absent
\* or not a Type4Tag, transceive raises, or the response is empty or does not
\* end with 90 00, _extract_uid returns (and does not raise) exactly the
\* uppercase hex of the handle's sdd_res.
C4_Fallback ==
    (Returned /\ FallbackCase(res_target)) =>
        res_uid = [kind |-> "return", value |-> HexUpperRef(res_target.sdd_res)]

\* A Type4Tag whose transceive raised resolved to the hardware id 04A1B2C3
C4_Witness ==
    /\ Returned
    /\ res_target.activate = "Type4Tag"
    /\ res_target.transceive = "raise"
    /\ res_target.sdd_res = <<4, 161, 178, 195>>
    /\ res_uid.kind = "return"
    /\ res_uid.value = <<"0", "4", "A", "1", "B", "2", "C", "3">>

\* C5: resolver priority law.  Whenever activation yields a Type4Tag and the
\* select-AID response ends with 90 00, _extract_uid returns the response
\* without its last two bytes, in uppercase hex, whatever sdd_res is.
C5_Priority ==
    (Returned /\ PriorityCase(res_target)) =>
        res_uid = [kind |-> "return",
                   value |-> HexUpperRef(SubSeq(res_target.response, 1,
                                                Len(res_target.response) - 2))]

\* The response AABBCCDD9000 resolved to AABBCCDD although sdd_res differs
C5_Witness ==
    /\ Returned
    /\ PriorityCase(res_target)
    /\ res_target.response = <<170, 187, 204, 221, 144, 0>>
    /\ res_target.sdd_res = <<4, 161, 178, 195>>
    /\ res_uid.value = <<"A", "A", "B", "B", "C", "C", "D", "D">>

\* C6: the resolver is total.  For every handle and every behaviour of
\* activation and transceive, _extract_uid returns a non-empty identity str
\* (never an empty or absent identity, never an error).
C6_Total ==
    Returned =>
        /\ res_uid.kind = "return"
        /\ res_uid.value # <<>>
        /\ res_uid.value # None

Calls(io, op) == {i \in 1..Len(io) : io[i].op = op}

\* C14: one call of _extract_uid activates at most once and transmits at most
\* once, transmits only the select command 00 A4 04 00 07 F0 00 00 00 01 00 01
\* 00 and only after an activation that yielded a Type4Tag, and leaves
\* current_uid, the running flag and the connection handle as they were.
C14_SideEffects ==
    [][(res_pc = "call" /\ res_pc' = "returned") =>
          /\ Cardinality(Calls(res_io', "activate")) <= 1
          /\ Cardinality(Calls(res_io', "transceive")) <= 1
          /\ \A i \in Calls(res_io', "transceive") :
               /\ res_io'[i].data = <<0, 164, 4, 0, 7, 240, 0, 0, 0, 1, 0, 1, 0>>
               /\ res_target.activate = "Type4Tag"
               /\ \E j \in Calls(res_io', "activate") : j < i
          /\ current_uid' = current_uid
          /\ running' = running
          /\ clf' = clf]_vars

\* A Type4Tag was activated, the one select command was sent and raised
C14_Witness ==
    /\ Returned
    /\ res_target.activate = "Type4Tag"
    /\ res_target.transceive = "raise"
    /\ Len(res_io) = 2
    /\ res_io[1].op = "activate"
    /\ res_io[2].op = "transceive"

-----------------------------------------------------------------------------
(* Properties of one polling run, checked under SpecRun *)

Entries == 1..Len(log)

\* Session State after iteration i: what the next iteration found, or the
\* present value for the latest iteration
After(i) == IF i < Len(log) THEN log[i + 1].before ELSE current_uid

\* Iteration i is over: its callback, if any, has come back
Completed(i) ==
    i < Len(log) \/ tpc[log[i].thread] \notin {"cb_arrival", "cb_removal"}

SameIdentity(i, j) ==
    \A k \in i..j : log[k].sensed = "target" /\ log[k].uid = log[i].uid

Arrivals(i, j) == Cardinality({k \in i..j : log[k].cb = "arrival"})

\* C1: dedup law of the detection loop.  An iteration invokes the arrival
\* callback iff a target was sensed, its resolved identity is non-empty and
\* differs from current_uid; current_uid then becomes that identity.  Over any
\* stretch of consecutive iterations sensing one identity, arrival fires once
\* if the identity was new at the start of the stretch and never otherwise.
C1_Dedup ==
    /\ \A i \in Entries :
         /\ log[i].cb = "arrival" <=>
              /\ log[i].sensed = "target"
              /\ log[i].uid # <<>>
              /\ log[i].uid # log[i].before
         /\ log[i].cb = "arrival" => After(i) = log[i].uid
    /\ \A i \in Entries : \A j \in i..Len(log) :
         (log[i].uid # <<>> /\ SameIdentity(i, j)) =>
             Arrivals(i, j) = IF log[i].before = log[i].uid THEN 0 ELSE 1

\* The same identity was sensed three times in a row and arrival fired once
C1_Witness ==
    \E i \in Entries :
        /\ i + 2 <= Len(log)
        /\ log[i].uid # <<>>
        /\ SameIdentity(i, i + 2)
        /\ log[i].cb = "arrival"
        /\ log[i + 1].cb = "none"
        /\ log[i + 2].cb = "none"

\* C2: removal law of the detection loop.  An iteration invokes the removal
\* callback iff the sense returned no target and current_uid held an identity
\* just before; after a no-target iteration current_uid is None; two
\* consecutive no-target iterations do not both fire removal.
C2_Removal ==
    \A i \in Entries :
        /\ log[i].cb = "removal" <=>
             (log[i].sensed = "none" /\ log[i].before # None)
        /\ (log[i].sensed = "none" /\ Completed(i)) => After(i) = None
        /\ (i < Len(log) /\ log[i].sensed = "none" /\ log[i + 1].sensed = "none") =>
             ~(log[i].cb = "removal" /\ log[i + 1].cb = "removal")

\* The callbacks of the spec's edge detector (section 4.2, steps b and c)
Arrival(uid) == [cb |-> "arrival", arg |-> uid]
Removal == [cb |-> "removal", arg |-> None]

\* The reference edge detector run over a sequence of iterations from a state
RECURSIVE RefEvents(_, _)
RefEvents(l, state) ==
    IF l = <<>> THEN <<>>
    ELSE LET e == Head(l)
         IN  IF e.sensed = "target" /\ e.uid # <<>> /\ e.uid # state
             THEN <<Arrival(e.uid)>> \o RefEvents(Tail(l), e.uid)
             ELSE IF e.sensed = "none" /\ state # None
             THEN <<Removal>> \o RefEvents(Tail(l), None)
             ELSE RefEvents(Tail(l), state)

\* The callbacks the loop invoked, in iteration order
RECURSIVE Emitted(_)
Emitted(l) ==
    IF l = <<>> THEN <<>>
    ELSE LET e == Head(l)
         IN  (CASE e.cb = "arrival" -> <<Arrival(e.uid)>>
                [] e.cb = "removal" -> <<Removal>>
                [] OTHER -> <<>>) \o Emitted(Tail(l))

\* C3: the ordered callbacks emitted by the loop over a run's sense outcomes
\* equal the output of the reference edge detector over the same outcomes.
C3_Reference == Emitted(log) = RefEvents(log, None)

\* C12: callbacks fire exactly once per true edge, also when a callback
\* raises.  A target with a non-empty identity sensed first or right after a
\* no-target iteration fires arrival; a no-target iteration right after such a
\* target fires removal; an iteration repeating the outcome of the one before
\* it (same identity again, or no target again) fires nothing.
C12_OncePerEdge ==
    \A i \in Entries :
        /\ (log[i].sensed = "target" /\ log[i].uid # <<>>
              /\ (i = 1 \/ log[i - 1].sensed = "none")) =>
             log[i].cb = "arrival"
        /\ (i > 1 /\ log[i].sensed = "none" /\ log[i - 1].sensed = "target"
              /\ log[i - 1].uid # <<>>) =>
             log[i].cb = "removal"
        /\ (i > 1 /\ log[i].sensed = "target" /\ log[i - 1].sensed = "target"
              /\ log[i].uid = log[i - 1].uid) =>
             log[i].cb = "none"
        /\ (i > 1 /\ log[i].sensed = "none" /\ log[i - 1].sensed = "none") =>
             log[i].cb = "none"

\* A step that ends an iteration in which sense or resolution raised
ErrorStep ==
    /\ Len(log') = Len(log) + 1
    /\ log'[Len(log')].sensed = "error"

\* C13: an iteration in which the sense call or the resolution raises invokes
\* no callback, leaves current_uid (and the flag and the handle) unchanged,
\* and leaves the thread at the head of the while loop, where it goes on to
\* the next iteration if the running flag is set.
C13_ErrorNonFatal ==
    [][ErrorStep =>
          /\ log'[Len(log')].cb = "none"
          /\ current_uid' = current_uid
          /\ running' = running
          /\ clf' = clf
          /\ tpc'[log'[Len(log')].thread] = "loop"]_vars

\* With a card present a sense raised; the next iteration of the same thread
\* sensed a target and found the state as it was
C13_Witness ==
    \E i \in Entries :
        /\ i < Len(log)
        /\ log[i].sensed = "error"
        /\ log[i].before # None
        /\ log[i + 1].thread = log[i].thread
        /\ log[i + 1].sensed = "target"
        /\ log[i + 1].before = log[i].before

Removals(i, j) == Cardinality({k \in i..j : log[k].cb = "removal"})

NoRaise == \A i \in Entries : ~log[i].raised

C20_EmptyNoOp ==
    \A i \in Entries :
        (log[i].sensed = "target" /\ log[i].uid = <<>>) =>
            (log[i].cb = "none" /\ After(i) = log[i].before)

\* With a card present, a phone answering the bare status word was sensed
C20_Witness ==
    \E i \in Entries :
        /\ log[i].sensed = "target"
        /\ log[i].uid = <<>>
        /\ log[i].before # None
        /\ log[i].before # <<>>
        /\ Completed(i)
        /\ After(i) = log[i].before

-----------------------------------------------------------------------------
(* Properties of the reader under the caller and its threads, checked under Spec *)

Ended(t) == tpc[t] \in {"done", "failed"}

NoIterationBy(t) == \A i \in Entries : log[i].thread # t

NoCallbackBy(t) == \A i \in Entries : log[i].thread = t => log[i].cb = "none"

\* stop() has returned and start() has not been called since
Stopped == cpc = "idle" /\ ~running

\* C7: when the open fails at cycle entry, the thread exits without a sense,
\* that run invokes no callback, the connection handle is None and
\* is_connected() is false for as long as the reader is not restarted.
C7_FailedOpen ==
    \A t \in Threads :
        tpc[t] = "failed" =>
            /\ NoIterationBy(t)
            /\ NoCallbackBy(t)
            /\ t = nthreads => (clf = 0 /\ ~is_connected)

\* C8: after a run aborted because the open failed, the running flag is
\* clear, so that the next start() (no stop() in between) launches a new run.
C8_NotRunningAfterFailure ==
    \A t \in Threads :
        (tpc[t] = "failed" /\ t = nthreads) => ~running

\* C9: once stop() has returned, the connection handle is None and no
\* connection is open, until the next start().
C9_Nested == Stopped => (clf = 0 /\ open = {})

\* C10: a run stopped before any sense completed invokes no callback, and
\* once its stop() has returned the connection is closed and is_connected()
\* is false.
C10_EarlyStop ==
    \A t \in early :
        /\ NoCallbackBy(t)
        /\ (Stopped /\ t = nthreads) =>
             (clf = 0 /\ open = {} /\ ~is_connected)

Alive(t) == tpc[t] \notin {"new", "done", "failed"}

InCallback(t) == tpc[t] \in {"cb_arrival", "cb_removal"}

\* C11: at most one background polling context is alive at any time, over
\* every sequence of start() and stop() calls, and so at most one callback
\* invocation is in progress at any time.
C11_OneContext ==
    /\ Cardinality({t \in Threads : Alive(t)}) <= 1
    /\ Cardinality({t \in Threads : InCallback(t)}) <= 1

\* A step of the controlling caller: start() creating a thread, or a step of
\* stop()
CallerStep == cpc' # cpc \/ nthreads' # nthreads

\* C15 as stated: the caller's context never closes or modifies the
\* connection handle and never writes Session State.
C15_CallerOwnsFlagOnly ==
    [][CallerStep =>
          (clf' = clf /\ open' = open /\ current_uid' = current_uid)]_vars

\* C15, amended: the caller's context writes the running flag and, inside
\* stop(), closes the connection and sets the handle to None; it never opens
\* a connection, never assigns a non-null handle and never writes Session
\* State.  The background context alone opens the connection and assigns the
\* non-null handle; it never writes the running flag, never closes a
\* connection and never sets the handle to None.
C15_Ownership ==
    [][/\ CallerStep =>
            /\ current_uid' = current_uid
            /\ open' \subseteq open
            /\ clf' \in {clf, 0}
       /\ ~CallerStep =>
            /\ running' = running
            /\ reader_thread' = reader_thread
            /\ open \subseteq open'
            /\ clf' \in {clf} \cup (open' \ open)]_vars

\* With a token present, stop() in the caller's context has just closed the
\* connection the background thread opened
C15_Witness ==
    /\ cpc = "clear"
    /\ clf # 0
    /\ clf \notin open
    /\ current_uid # None

FirstOfRun(i) == \A j \in 1..(i - 1) : log[j].thread # log[i].thread

\* The first iteration of a later run finds the identity left by the earlier
\* iterations: sensing it again fires nothing, sensing no target fires removal
NewRunLaw ==
    \A i \in Entries :
        (FirstOfRun(i) /\ log[i].thread > 1 /\ log[i].before # None) =>
            /\ (log[i].sensed = "target" /\ log[i].uid = log[i].before) =>
                 log[i].cb = "none"
            /\ log[i].sensed = "none" => log[i].cb = "removal"

\* C19 as stated: from the call of stop() to the next start() the current
\* identity stays what it was when stop() was called; and the first
\* iteration of the new run dedups against it or fires removal for it.
C19_IdentityKept ==
    /\ [][~running' => current_uid' = current_uid]_vars
    /\ []NewRunLaw

\* C19, amended: stop() and start() themselves neither change Session State
\* nor invoke a callback (only loop iterations do, the one in progress when
\* stop() is called included).  The identity left by the earlier iterations
\* is still current in a later run: sensing it again fires no arrival, and a
\* first sense that finds no target fires removal for the previous run's token.
C19_StateSurvivesStop ==
    /\ [][CallerStep => (current_uid' = current_uid /\ log' = log)]_vars
    /\ []NewRunLaw

\* The first run ended with a token present; the first sense of the second
\* run found no target and fired removal
C19_Witness ==
    \E i \in Entries :
        /\ FirstOfRun(i)
        /\ log[i].thread = 2
        /\ tpc[1] = "done"
        /\ log[i].before # None
        /\ log[i].sensed = "none"
        /\ log[i].cb = "removal"

\* A step in which thread t enters self.clf.sense(...)
SenseStarts(t) == tpc[t] # "sense" /\ tpc'[t] = "sense"

\* A step that ends an iteration of thread t
IterationEnds(t) == Len(log') = Len(log) + 1 /\ log'[Len(log')].thread = t

NoneAlive == \A t \in Threads : ~Alive(t)

C17_Idempotent ==
    [][(noop_stop' /\ cpc' # cpc) =>
            /\ open' = open
            /\ cpc' = "idle" => (clf' = 0 /\ ~running')]_vars

=============================================================================
